---- MODULE Spec2Model ----
(***************************************************************************)
(* A model of kothon's Seq wrapper (src/kothon/iterable/seq.py) and of the *)
(* free functions that adapt it (src/kothon/functions/sequence.py).        *)
(*                                                                         *)
(* A behaviour is one use of the library: a source is wrapped, one         *)
(* operation is called on it, and, when the operation returns a deferred   *)
(* Seq, to_list drives that Seq element by element.  Every pull from the   *)
(* source and every call of a caller-supplied predicate is recorded.       *)
(***************************************************************************)
EXTENDS Integers, Sequences, FiniteSets, TLC

\* ---------------------------------------------------------------- bounds
MaxLen == 3          \* longest source collection
MaxElem == 1         \* the int elements are 0..MaxElem
MaxKey == 1          \* the derived keys are 0..MaxKey
MaxN == 3            \* largest n of take / size of chunked

\* Python's None, an element like any other (Optional[T] is T | None).
NoneVal == -1

\* the longest chain of deferred stages
MaxChain == 2
\* how many terminal operations one consumer calls
MaxRuns == 2

Value == {NoneVal} \cup (0..MaxElem)
Key == 0..MaxKey
Predicates == [Value -> BOOLEAN]
Selectors == [Value -> Key]

RECURSIVE SeqsUpTo(_)
SeqsUpTo(len) ==
    IF len = 0 THEN {<<>>}
    ELSE LET shorter == SeqsUpTo(len - 1)
         IN shorter \cup {Append(s, v) : s \in {t \in shorter : Len(t) = len - 1}, v \in Value}

Sources == SeqsUpTo(MaxLen)

\* Python ints are unbounded.  The code compares the counters below only
\* with n (at most MaxN) and with the length of a finite source (at most
\* MaxLen), so every value from MaxCount - 1 on behaves alike: a counter
\* that would pass MaxCount falls back to MaxCount - 1, and every pull
\* remains a change of state.
MaxCount == (IF MaxLen > MaxN THEN MaxLen ELSE MaxN) + 2
\* to_list of an infinite deferred Seq never returns; the list it is
\* building is cut off at MaxOut elements.
MaxOut == MaxLen + 2

Sat(c) == IF c <= MaxCount THEN c ELSE MaxCount - 1

DefaultP == [v \in Value |-> TRUE]
DefaultSel == [v \in Value |-> 0]

\* what moves through a chain, by shape: an element of the source or a
\* caller's result ("atom"), an enumerate pair ("tuple"), a chunk ("list")
Atom == [t |-> "atom", kids |-> <<>>]
NoTok == [dir |-> "none", item |-> Atom]

\* the callers that hold a Seq over the same source
Consumers == {1, 2}
\* a consumer that has called nothing yet
NoTrav == [target |-> "", where |-> "", pos |-> 0, got |-> <<>>, from |-> 0,
           st |-> "idle", runs |-> 0, stale |-> FALSE]
\* no derived Seq has been made
NoGen == [op |-> "", where |-> "", pos |-> 0, spent |-> FALSE]

VARIABLES
    source,     \* the elements of the wrapped collection (the period of a cycle)
    kind,       \* "list": re-iterable and indexable; "iter": one-shot iterator;
                \* "cycle": an infinite one-shot iterator repeating source
    it,         \* position of the source iterator
    exhausted,  \* the source iterator has raised StopIteration
    pulled,     \* how many elements have been pulled from the source
    opname,     \* the operation called
    form,       \* "method", "direct" f(arg, source) or "curried" f(arg)(source);
                \* "again": a later call on a Seq that was consumed before
    n,          \* the integer argument (n of take, size of chunked)
    p,          \* the predicate argument
    sel,        \* the selector argument
    fn,         \* the binary operation argument of reduce
    pc,         \* "idle", "closure", "iterating", "rest", "done", "raised"
    i,          \* the counter of enumerate()
    out,        \* the list to_list is building
    evals,      \* evals[k]: how often p was called on the k-th pulled element
    result,     \* the value a terminal operation returned
    err,        \* the exception raised, "" for none
    prev,       \* the list an earlier call on the same Seq produced
    mat,        \* the list an eager operation materialized and wrapped
    seen,       \* the set distinct / distinct_by keeps of the keys it has met
    chain,      \* the deferred stages stacked on the source, innermost first
    calls,      \* how often a caller-supplied function has been called
    st,         \* st[k]: the local variables of the k-th stage's iterator
    lvl,        \* whose turn it is: 0 the source iterator, k the k-th stage,
                \* Len(chain) + 1 the terminal operation
    tok,        \* what was handed to lvl: a next() request, an item, or
                \* StopIteration
    late,       \* what the caller appended to its list after an eager call
    trav,       \* trav[c]: the traversal consumer c runs over a shared source
    gen         \* the iterator a derived Seq wraps

vars == <<source, kind, it, exhausted, pulled, opname, form, n, p, sel, fn,
          pc, i, out, evals, result, err, prev, mat, seen, chain, calls,
          st, lvl, tok, late, trav, gen>>

Init ==
    /\ source \in Sources
    /\ kind \in {"list", "iter", "cycle"}
    /\ kind = "cycle" => source # <<>>
    /\ it = 0 /\ exhausted = FALSE /\ pulled = 0
    /\ opname = "" /\ form = "" /\ n = 0
    /\ p = DefaultP /\ sel = DefaultSel /\ fn = ""
    /\ pc = "idle" /\ i = 0 /\ out = <<>> /\ evals = <<>>
    /\ result = NoneVal /\ err = ""
    /\ prev = <<>> /\ mat = <<>> /\ seen = {} /\ chain = <<>> /\ calls = 0
    /\ st = <<>> /\ lvl = 0 /\ tok = NoTok
    /\ late = <<>> /\ trav = [c \in Consumers |-> NoTrav] /\ gen = NoGen

\* ------------------------------------------------------ the source iterator
\* next(it) has an element to return
HasNext == kind = "cycle" \/ it < Len(source)
\* the element next(it) returns
Peek == source[it + 1]
\* the iterator position after next(it) returned an element
Advance == IF kind = "cycle" THEN (it + 1) % Len(source) ELSE it + 1

\* next(it) returns an element
PullOne ==
    /\ it' = Advance
    /\ pulled' = Sat(pulled + 1)
    /\ UNCHANGED exhausted

\* next(it) raises StopIteration
PullNone ==
    /\ exhausted' = TRUE
    /\ UNCHANGED <<it, pulled>>

Args == <<n, p, sel, fn>>
Inputs == <<source, kind>>
\* the state of a chain of deferred stages
Pipe == <<chain, calls, st, lvl, tok>>
\* the state of what happens after or beside a traversal
Later == <<late, trav, gen>>
\* the state only the operations further down use
Aux == <<prev, mat, seen, Pipe, Later>>

\* ------------------------------------------------------------ Seq.take
\* take(n) builds Seq(item for i, item in enumerate(self) if i < n);
\* nothing is pulled yet.
Call_take(cnt) ==
    /\ pc = "idle"
    /\ opname' = "take" /\ form' = "method" /\ n' = cnt
    /\ pc' = "iterating"
    /\ UNCHANGED <<Inputs, Aux, it, exhausted, pulled, p, sel, fn, i, out, evals, result, err>>

\* the condition of the generator expression
TakeKeeps(idx, cnt) == idx < cnt

\* one iteration of the generator expression, driven by to_list
TakeStep ==
    /\ opname = "take" /\ pc = "iterating"
    /\ IF HasNext
       THEN /\ PullOne
            /\ out' = IF TakeKeeps(i, n) THEN Append(out, Peek) ELSE out
            /\ i' = Sat(i + 1)
            /\ UNCHANGED pc
       ELSE /\ PullNone
            /\ pc' = "done"
            /\ UNCHANGED <<i, out>>
    /\ UNCHANGED <<Inputs, Aux, opname, form, Args, evals, result, err>>

\* ------------------------------------------------------- Seq.drop_while
\* drop_while(predicate) builds Seq(generator()); the generator has not
\* started, so nothing is pulled and predicate is not called.
Call_drop_while(pred) ==
    /\ pc = "idle"
    /\ opname' = "drop_while" /\ form' = "method" /\ p' = pred
    /\ pc' = "iterating"
    /\ UNCHANGED <<Inputs, Aux, it, exhausted, pulled, n, sel, fn, i, out, evals, result, err>>

\* drop_while that throws the first failing element away with the prefix
DropWhileStep_skipfirst ==
    /\ opname = "drop_while" /\ pc = "iterating"
    /\ IF HasNext
       THEN /\ Len(evals) < MaxCount
            /\ PullOne
            /\ evals' = Append(evals, 1)
            /\ IF ~p[Peek]
               THEN pc' = "rest" /\ UNCHANGED out
               ELSE UNCHANGED <<out, pc>>
       ELSE /\ PullNone
            /\ pc' = "done"
            /\ UNCHANGED <<out, evals>>
    /\ UNCHANGED <<Inputs, Aux, opname, form, Args, i, result, err>>

\* one iteration of "for element in iterator": the predicate is called on
\* the element; the first element that fails it is yielded and the loop is
\* left.  When the source runs out, "yield from iterator" finds it empty.
DropWhileStep ==
    /\ opname = "drop_while" /\ pc = "iterating"
    /\ IF HasNext
       THEN /\ Len(evals) < MaxCount
            /\ PullOne
            /\ evals' = Append(evals, 1)
            /\ IF ~p[Peek]
               THEN out' = Append(out, Peek) /\ pc' = "rest"
               ELSE UNCHANGED <<out, pc>>
       ELSE /\ PullNone
            /\ pc' = "done"
            /\ UNCHANGED <<out, evals>>
    /\ UNCHANGED <<Inputs, Aux, opname, form, Args, i, result, err>>

\* drop_while that keeps calling the predicate after the prefix has ended
DropWhileRest_reeval ==
    /\ opname = "drop_while" /\ pc = "rest"
    /\ IF HasNext
       THEN /\ Len(out) < MaxOut
            /\ PullOne
            /\ evals' = Append(evals, 1)
            /\ out' = Append(out, Peek)
            /\ UNCHANGED pc
       ELSE /\ PullNone
            /\ pc' = "done"
            /\ UNCHANGED <<out, evals>>
    /\ UNCHANGED <<Inputs, Aux, opname, form, Args, i, result, err>>

\* one element of "yield from iterator": yielded without calling predicate
DropWhileRest ==
    /\ opname = "drop_while" /\ pc = "rest"
    /\ IF HasNext
       THEN /\ Len(out) < MaxOut
            /\ PullOne
            /\ evals' = Append(evals, 0)
            /\ out' = Append(out, Peek)
            /\ UNCHANGED pc
       ELSE /\ PullNone
            /\ pc' = "done"
            /\ UNCHANGED <<out, evals>>
    /\ UNCHANGED <<Inputs, Aux, opname, form, Args, i, result, err>>

\* ------------------------------------------------------- Seq.take_while
Call_take_while(pred) ==
    /\ pc = "idle"
    /\ opname' = "take_while" /\ form' = "method" /\ p' = pred
    /\ pc' = "iterating"
    /\ UNCHANGED <<Inputs, Aux, it, exhausted, pulled, n, sel, fn, i, out, evals, result, err>>

\* take_while that skips the failing element instead of leaving the loop
TakeWhileStep_nobreak ==
    /\ opname = "take_while" /\ pc = "iterating"
    /\ IF HasNext
       THEN /\ Len(out) < MaxOut
            /\ pulled < MaxCount
            /\ PullOne
            /\ IF p[Peek]
               THEN out' = Append(out, Peek) /\ UNCHANGED pc
               ELSE UNCHANGED <<out, pc>>
       ELSE /\ PullNone
            /\ pc' = "done"
            /\ UNCHANGED out
    /\ UNCHANGED <<Inputs, Aux, opname, form, Args, i, evals, result, err>>

\* one iteration of "for element in self": yield while the predicate
\* holds, break (the generator returns) on the first element that fails it
TakeWhileStep ==
    /\ opname = "take_while" /\ pc = "iterating"
    /\ IF HasNext
       THEN /\ Len(out) < MaxOut
            /\ PullOne
            /\ IF p[Peek]
               THEN out' = Append(out, Peek) /\ UNCHANGED pc
               ELSE pc' = "done" /\ UNCHANGED out
       ELSE /\ PullNone
            /\ pc' = "done"
            /\ UNCHANGED out
    /\ UNCHANGED <<Inputs, Aux, opname, form, Args, i, evals, result, err>>

\* ---------------------------------------------------------- Seq.chunked
\* an argument check that lets size 0 through
ChunkSizeInvalid_neg(size) == size < 0

\* the argument check at the top of Seq.chunked
ChunkSizeInvalid(size) == size < 1

\* Seq.chunked(size): raise ValueError for size < 1, else return
\* Seq(generator()) without starting the generator
SeqChunked(size, frm) ==
    /\ opname' = "chunked" /\ form' = frm /\ n' = size
    /\ IF ChunkSizeInvalid(size)
       THEN pc' = "raised" /\ err' = "ValueError"
       ELSE pc' = "iterating" /\ UNCHANGED err
    /\ UNCHANGED <<Inputs, Aux, it, exhausted, pulled, p, sel, fn, i, out, evals, result>>

\* the method call Seq(source).chunked(size)
Call_Seq_chunked(size) ==
    /\ pc = "idle"
    /\ SeqChunked(size, "method")

\* the free function with both arguments: Seq(sequence).chunked(size)
Call_chunked(size) ==
    /\ pc = "idle"
    /\ SeqChunked(size, "direct")

\* the free function without a source returns
\* lambda s: Seq(s).chunked(size); size is not looked at
Call_chunked_curried(size) ==
    /\ pc = "idle"
    /\ opname' = "chunked" /\ form' = "curried" /\ n' = size
    /\ pc' = "closure"
    /\ UNCHANGED <<Inputs, Aux, it, exhausted, pulled, p, sel, fn, i, out, evals, result, err>>

\* the closure receives the source
ApplyClosure ==
    /\ pc = "closure" /\ opname = "chunked"
    /\ SeqChunked(n, "curried")

\* chunking that only lets full chunks through
ChunkLen_full(size) ==
    IF kind = "cycle" THEN size
    ELSE IF Len(source) - it < size THEN 0 ELSE size

\* the elements list(islice(it, size)) collects: up to size elements, all
\* that are left when there are fewer
ChunkLen(size) ==
    IF kind = "cycle" THEN size
    ELSE IF Len(source) - it < size THEN Len(source) - it ELSE size

RECURSIVE Slice(_, _)
Slice(pos, len) ==
    IF len = 0 THEN <<>>
    ELSE <<source[pos + 1]>> \o
         Slice(IF kind = "cycle" THEN (pos + 1) % Len(source) ELSE pos + 1, len - 1)

\* one iteration of "while True": take a chunk, stop on an empty one
ChunkedStep ==
    /\ opname = "chunked" /\ pc = "iterating"
    /\ LET len == ChunkLen(n)
           chunk == Slice(it, len)
       IN /\ Len(out) < MaxOut
          /\ it' = IF kind = "cycle" THEN (it + len) % Len(source) ELSE it + len
          /\ pulled' = Sat(pulled + len)
          /\ exhausted' = (exhausted \/ len < n)
          /\ IF chunk = <<>>
             THEN pc' = "done" /\ UNCHANGED out
             ELSE out' = Append(out, chunk) /\ UNCHANGED pc
    /\ UNCHANGED <<Inputs, Aux, opname, form, Args, i, evals, result, err>>

\* ------------------------------------------------------ terminal operations
\* a fold that keeps the accumulator on equal keys
max_by_cmp_ge(x, y) == IF x[1] >= y[1] THEN x ELSE y

\* lambda x, y: x if x[0] > y[0] else y, on (key, element) pairs
max_by_cmp(x, y) == IF x[1] > y[1] THEN x ELSE y

\* lambda x, y: x if x[0] < y[0] else y, on (key, element) pairs
min_by_cmp(x, y) == IF x[1] < y[1] THEN x ELSE y

\* the builtin max(iterable, key=...) keeps its item unless the new key is
\* strictly greater, min(iterable, key=...) unless it is strictly less
builtin_max_cmp(x, y) == IF y[1] > x[1] THEN y ELSE x
builtin_min_cmp(x, y) == IF y[1] < x[1] THEN y ELSE x

\* the binary operations reduce is called with: the two lambdas above, the
\* builtins' update rules, the caller's lambda a, b: a / lambda a, b: b,
\* the builtins max and min of two arguments, and operator.add
ApplyOp(opn, x, y) ==
    CASE opn = "max_by_cmp" -> max_by_cmp(x, y)
      [] opn = "min_by_cmp" -> min_by_cmp(x, y)
      [] opn = "builtin_max" -> builtin_max_cmp(x, y)
      [] opn = "builtin_min" -> builtin_min_cmp(x, y)
      [] opn = "left" -> x
      [] opn = "right" -> y
      [] opn = "max" -> IF y > x THEN y ELSE x
      [] opn = "min" -> IF y < x THEN y ELSE x
      [] opn = "add" -> x + y

\* "for element in it: accumulator = operation(accumulator, element)"
RECURSIVE FoldLeft(_, _, _)
FoldLeft(acc, s, opn) ==
    IF s = <<>> THEN acc
    ELSE FoldLeft(ApplyOp(opn, acc, Head(s)), Tail(s), opn)

\* Seq.reduce_or_none: None on StopIteration of the first next(it)
reduce_or_none(s, opn) ==
    IF s = <<>> THEN NoneVal ELSE FoldLeft(Head(s), Tail(s), opn)

\* ((selector(v), v) for v in self)
KeyedPairs(s, sl) == [k \in 1..Len(s) |-> <<sl[s[k]], s[k]>>]

\* Seq.max_by_or_none: reduce_or_none over the pairs; the pair it returns
\* is never None, so "result is not None" fails on the empty sequence only
max_by_or_none(s, sl) ==
    LET pairs == KeyedPairs(s, sl)
    IN IF pairs = <<>> THEN NoneVal
       ELSE FoldLeft(Head(pairs), Tail(pairs), "max_by_cmp")[2]

\* Seq.min_by_or_none
min_by_or_none(s, sl) ==
    LET pairs == KeyedPairs(s, sl)
    IN IF pairs = <<>> THEN NoneVal
       ELSE FoldLeft(Head(pairs), Tail(pairs), "min_by_cmp")[2]

\* Seq.max_by on a non-empty sequence: max(self, key=selector)
max_by(s, sl) ==
    LET pairs == KeyedPairs(s, sl)
    IN FoldLeft(Head(pairs), Tail(pairs), "builtin_max")[2]

\* Seq.min_by on a non-empty sequence: min(self, key=selector)
min_by(s, sl) ==
    LET pairs == KeyedPairs(s, sl)
    IN FoldLeft(Head(pairs), Tail(pairs), "builtin_min")[2]

\* Seq.first_or_none: next(iter(self), None)
first_or_none(s) == IF s = <<>> THEN NoneVal ELSE s[1]

\* Seq.last_or_none: self._iterable[-1] for a list, else the last value the
\* loop assigned to last_value, which starts as None
last_or_none(s) == IF s = <<>> THEN NoneVal ELSE s[Len(s)]

\* single_or_none that takes the first element for the second
single_or_none_offbyone(s) ==
    IF s = <<>> THEN NoneVal
    ELSE IF Len(s) >= 1 THEN NoneVal
    ELSE s[1]

\* Seq.single_or_none: None when the first next(it) raises StopIteration,
\* None when the second next(it) returns, else the first value
single_or_none(s) ==
    IF s = <<>> THEN NoneVal
    ELSE IF Len(s) >= 2 THEN NoneVal
    ELSE s[1]

\* an operation that returns before it has pulled anything
Traverse_deferred ==
    /\ UNCHANGED <<it, pulled, exhausted>>

\* the source iterator after a full traversal
Traverse ==
    /\ it' = Len(source)
    /\ pulled' = Sat(Len(source))
    /\ exhausted' = TRUE

\* a terminal operation returns val
Return(name, val) ==
    /\ opname' = name /\ form' = "method"
    /\ result' = val
    /\ pc' = "done"
    /\ UNCHANGED <<Inputs, Aux, n, p, i, out, evals, err>>

Call_max_by_or_none(sl) ==
    /\ pc = "idle" /\ kind # "cycle"
    /\ Traverse
    /\ sel' = sl /\ UNCHANGED fn
    /\ Return("max_by_or_none", max_by_or_none(source, sl))

Call_min_by_or_none(sl) ==
    /\ pc = "idle" /\ kind # "cycle"
    /\ Traverse
    /\ sel' = sl /\ UNCHANGED fn
    /\ Return("min_by_or_none", min_by_or_none(source, sl))

\* max() raises ValueError on an empty iterable
Call_max_by(sl) ==
    /\ pc = "idle" /\ kind # "cycle"
    /\ Traverse
    /\ sel' = sl
    /\ opname' = "max_by" /\ form' = "method"
    /\ IF source = <<>>
       THEN pc' = "raised" /\ err' = "ValueError" /\ UNCHANGED result
       ELSE pc' = "done" /\ result' = max_by(source, sl) /\ UNCHANGED err
    /\ UNCHANGED <<Inputs, Aux, n, p, fn, i, out, evals>>

Call_min_by(sl) ==
    /\ pc = "idle" /\ kind # "cycle"
    /\ Traverse
    /\ sel' = sl
    /\ opname' = "min_by" /\ form' = "method"
    /\ IF source = <<>>
       THEN pc' = "raised" /\ err' = "ValueError" /\ UNCHANGED result
       ELSE pc' = "done" /\ result' = min_by(source, sl) /\ UNCHANGED err
    /\ UNCHANGED <<Inputs, Aux, n, p, fn, i, out, evals>>

\* one next() on a fresh iterator
Call_first_or_none ==
    /\ pc = "idle"
    /\ IF HasNext THEN PullOne ELSE PullNone
    /\ UNCHANGED <<sel, fn>>
    /\ Return("first_or_none", first_or_none(source))

\* a list is indexed, anything else is traversed
Call_last_or_none ==
    /\ pc = "idle" /\ kind # "cycle"
    /\ IF kind = "list" THEN UNCHANGED <<it, pulled, exhausted>> ELSE Traverse
    /\ UNCHANGED <<sel, fn>>
    /\ Return("last_or_none", last_or_none(source))

\* at most two next() calls
Call_single_or_none ==
    /\ pc = "idle"
    /\ LET len == IF kind = "cycle" \/ Len(source) >= 2 THEN 2 ELSE Len(source)
       IN /\ it' = IF kind = "cycle" THEN len % Len(source) ELSE len
          /\ pulled' = len
          /\ exhausted' = (len < 2)
    /\ UNCHANGED <<sel, fn>>
    /\ Return("single_or_none", single_or_none(source))

Call_reduce_or_none(opn) ==
    /\ pc = "idle" /\ kind # "cycle"
    /\ Traverse
    /\ fn' = opn /\ UNCHANGED sel
    /\ Return("reduce_or_none", reduce_or_none(source, opn))

\* ------------------------------------------- strict terminals and folds
HasNone(s) == \E k \in 1..Len(s) : s[k] = NoneVal

\* max, min and operator.add raise TypeError as soon as one of their two
\* arguments is None; the caller's lambdas take anything
OpFails(opn, s) == opn \in {"max", "min", "add"} /\ Len(s) >= 2 /\ HasNone(s)

\* how many elements the fold has pulled when the operation raises: the
\* first call with a None argument is the one for the k-th element
FailsAt(s) ==
    CHOOSE k \in 2..Len(s) :
        /\ \E j \in 1..k : s[j] = NoneVal
        /\ \A m \in 2..(k - 1) : \A j \in 1..m : s[j] # NoneVal

\* sum() that adds from 0 like the builtin, and so accepts no elements
reduce_err_seeded(s, opn) ==
    IF OpFails(opn, s) THEN "TypeError" ELSE ""

\* Seq.reduce: functools.reduce raises TypeError on an empty iterable
reduce_err(s, opn) ==
    IF s = <<>> THEN "TypeError"
    ELSE IF OpFails(opn, s) THEN "TypeError" ELSE ""

\* Seq.reduce_or_none raises only what the operation raises
reduce_or_none_err(s, opn) == IF OpFails(opn, s) THEN "TypeError" ELSE ""

\* Seq.max / Seq.min: the builtin raises ValueError on an empty iterable
extremum_err(s) ==
    IF s = <<>> THEN "ValueError"
    ELSE IF Len(s) >= 2 /\ HasNone(s) THEN "TypeError" ELSE ""

\* Seq.first, Seq.last: ValueError on StopIteration / on len == 0
first_err(s) == IF s = <<>> THEN "ValueError" ELSE ""

\* single() that lets a second element pass
single_err_lax(s) == IF s = <<>> THEN "ValueError" ELSE ""

\* Seq.single: ValueError when the first next(it) raises StopIteration and
\* when the second next(it) returns
single_err(s) ==
    IF s = <<>> THEN "ValueError"
    ELSE IF Len(s) >= 2 THEN "ValueError" ELSE ""

\* a terminal operation raises errname, or returns val when errname is ""
Finish(name, errname, val) ==
    /\ opname' = name /\ form' = "method"
    /\ IF errname # ""
       THEN pc' = "raised" /\ err' = errname /\ UNCHANGED result
       ELSE pc' = "done" /\ result' = val /\ UNCHANGED err
    /\ UNCHANGED <<Inputs, Aux, n, p, sel, i, out, evals>>

\* the source iterator after a fold that ran to the end or to the
\* element at which the operation raised
FoldTraverse(opn) ==
    IF OpFails(opn, source)
    THEN /\ it' = FailsAt(source)
         /\ pulled' = Sat(FailsAt(source))
         /\ UNCHANGED exhausted
    ELSE Traverse

Call_reduce(opn) ==
    /\ pc = "idle" /\ kind # "cycle"
    /\ FoldTraverse(opn)
    /\ fn' = opn
    /\ Finish("reduce", reduce_err(source, opn), reduce_or_none(source, opn))

\* self.reduce(operator.add)
Call_sum ==
    /\ pc = "idle" /\ kind # "cycle"
    /\ FoldTraverse("add")
    /\ fn' = "add"
    /\ Finish("sum", reduce_err(source, "add"), reduce_or_none(source, "add"))

\* self.reduce_or_none(operator.add)
Call_sum_or_none ==
    /\ pc = "idle" /\ kind # "cycle"
    /\ FoldTraverse("add")
    /\ fn' = "add"
    /\ Finish("sum_or_none", reduce_or_none_err(source, "add"), reduce_or_none(source, "add"))

\* self.reduce_or_none(max)
Call_max_or_none ==
    /\ pc = "idle" /\ kind # "cycle"
    /\ FoldTraverse("max")
    /\ fn' = "max"
    /\ Finish("max_or_none", reduce_or_none_err(source, "max"), reduce_or_none(source, "max"))

\* self.reduce_or_none(min)
Call_min_or_none ==
    /\ pc = "idle" /\ kind # "cycle"
    /\ FoldTraverse("min")
    /\ fn' = "min"
    /\ Finish("min_or_none", reduce_or_none_err(source, "min"), reduce_or_none(source, "min"))

\* max(self)
Call_max ==
    /\ pc = "idle" /\ kind # "cycle"
    /\ FoldTraverse("max")
    /\ UNCHANGED fn
    /\ Finish("max", extremum_err(source), reduce_or_none(source, "max"))

\* min(self)
Call_min ==
    /\ pc = "idle" /\ kind # "cycle"
    /\ FoldTraverse("min")
    /\ UNCHANGED fn
    /\ Finish("min", extremum_err(source), reduce_or_none(source, "min"))

\* next(iter(self)), ValueError on StopIteration
Call_first ==
    /\ pc = "idle"
    /\ IF HasNext THEN PullOne ELSE PullNone
    /\ UNCHANGED fn
    /\ Finish("first", first_err(source), source[1])

\* a list is indexed, anything else is traversed
Call_last ==
    /\ pc = "idle" /\ kind # "cycle"
    /\ IF kind = "list" THEN UNCHANGED <<it, pulled, exhausted>> ELSE Traverse
    /\ UNCHANGED fn
    /\ Finish("last", first_err(source), source[Len(source)])

\* at most two next() calls
Call_single ==
    /\ pc = "idle"
    /\ LET len == IF kind = "cycle" \/ Len(source) >= 2 THEN 2 ELSE Len(source)
       IN /\ it' = IF kind = "cycle" THEN len % Len(source) ELSE len
          /\ pulled' = len
          /\ exhausted' = (len < 2)
    /\ UNCHANGED fn
    /\ Finish("single", IF kind = "cycle" THEN "ValueError" ELSE single_err(source), source[1])

\* ------------------------------------------------------------- Seq.drop
\* drop(n) builds Seq(x for i, x in enumerate(self) if i >= n)
Call_drop(cnt) ==
    /\ pc = "idle"
    /\ opname' = "drop" /\ form' = "method" /\ n' = cnt
    /\ pc' = "iterating"
    /\ UNCHANGED <<Inputs, Aux, it, exhausted, pulled, p, sel, fn, i, out, evals, result, err>>

\* s.take(n).to_list() has returned and s.drop(n) is called on the same s:
\* iter(self._iterable) is a fresh iterator for a list and the same, used
\* up iterator otherwise
Then_drop ==
    /\ pc = "done" /\ opname = "take"
    /\ opname' = "drop" /\ form' = "again"
    /\ pc' = "iterating"
    /\ prev' = out /\ out' = <<>> /\ i' = 0
    /\ IF kind = "list"
       THEN it' = 0 /\ exhausted' = FALSE
       ELSE UNCHANGED <<it, exhausted>>
    /\ UNCHANGED <<Inputs, Later, mat, seen, Pipe, pulled, Args, evals, result, err>>

\* a condition that also drops the element at index n
DropKeeps_late(idx, cnt) == idx > cnt

\* the condition of the generator expression
DropKeeps(idx, cnt) == idx >= cnt

\* one iteration of the generator expression, driven by to_list
DropStep ==
    /\ opname = "drop" /\ pc = "iterating"
    /\ IF HasNext
       THEN /\ Len(out) < MaxOut
            /\ PullOne
            /\ out' = IF DropKeeps(i, n) THEN Append(out, Peek) ELSE out
            /\ i' = Sat(i + 1)
            /\ UNCHANGED pc
       ELSE /\ PullNone
            /\ pc' = "done"
            /\ UNCHANGED <<i, out>>
    /\ UNCHANGED <<Inputs, Aux, opname, form, Args, evals, result, err>>

\* ------------------------------------------------ Seq.sorted and variants
IdKey == [v \in Value |-> v]

\* the builtin sorted(): a stable sort.  The element x goes behind every
\* element already placed that does not have to come after it; with
\* reverse=True the order of the keys is turned round and equal keys keep
\* their order
Insert(t, x, kf, rev) ==
    LET ahead == {k \in 1..Len(t) : IF rev THEN kf[t[k]] >= kf[x] ELSE kf[t[k]] <= kf[x]}
        cnt == Cardinality(ahead)
    IN SubSeq(t, 1, cnt) \o <<x>> \o SubSeq(t, cnt + 1, Len(t))

RECURSIVE StableSort(_, _, _)
StableSort(s, kf, rev) ==
    IF s = <<>> THEN <<>>
    ELSE Insert(StableSort(SubSeq(s, 1, Len(s) - 1), kf, rev), s[Len(s)], kf, rev)

Reverse(s) == [k \in 1..Len(s) |-> s[Len(s) + 1 - k]]

\* an ascending sort that comes out descending
sorted_asc_reversed(s) == StableSort(s, IdKey, TRUE)

\* sorted(self)
sorted_asc(s) == StableSort(s, IdKey, FALSE)

\* sorted(self, reverse=True)
sorted_desc(s) == StableSort(s, IdKey, TRUE)

\* sorted(self, key=key_func)
sorted_by(s, kf) == StableSort(s, kf, FALSE)

\* a descending sort that turns the ascending result round
sorted_by_desc_flipped(s, kf) == Reverse(StableSort(s, kf, FALSE))

\* sorted(self, key=key_func, reverse=True)
sorted_by_desc(s, kf) == StableSort(s, kf, TRUE)

\* an eager operation has traversed the source and returns Seq(list), or
\* raises the TypeError of comparing None
Materialize(name, frm, fails, lst) ==
    /\ opname' = name /\ form' = frm
    /\ IF fails
       THEN pc' = "raised" /\ err' = "TypeError" /\ UNCHANGED mat
       ELSE pc' = "materialized" /\ mat' = lst /\ UNCHANGED err
    /\ UNCHANGED <<Inputs, Later, seen, Pipe, n, p, fn, i, out, evals, result>>

Call_sorted ==
    /\ pc = "idle" /\ kind # "cycle"
    /\ Traverse
    /\ UNCHANGED <<sel, prev>>
    /\ Materialize("sorted", "method", Len(source) >= 2 /\ HasNone(source), sorted_asc(source))

Call_sorted_desc ==
    /\ pc = "idle" /\ kind # "cycle"
    /\ Traverse
    /\ UNCHANGED <<sel, prev>>
    /\ Materialize("sorted_desc", "method", Len(source) >= 2 /\ HasNone(source), sorted_desc(source))

Call_sorted_by(sl) ==
    /\ pc = "idle" /\ kind # "cycle"
    /\ Traverse
    /\ sel' = sl /\ UNCHANGED prev
    /\ Materialize("sorted_by", "method", FALSE, sorted_by(source, sl))

Call_sorted_by_desc(sl) ==
    /\ pc = "idle" /\ kind # "cycle"
    /\ Traverse
    /\ sel' = sl /\ UNCHANGED prev
    /\ Materialize("sorted_by_desc", "method", FALSE, sorted_by_desc(source, sl))

\* .sorted() on the Seq that sorted() returned: its source is the list mat
Then_sorted ==
    /\ pc = "materialized" /\ opname = "sorted" /\ form = "method"
    /\ prev' = mat
    /\ UNCHANGED <<sel, it, exhausted, pulled>>
    /\ Materialize("sorted", "again", FALSE, sorted_asc(mat))

\* to_list on a Seq over a list: list(self)
ToList ==
    /\ pc = "materialized"
    /\ out' = mat
    /\ pc' = "done"
    /\ UNCHANGED <<Inputs, Later, prev, mat, seen, Pipe, it, exhausted, pulled,
                   opname, form, Args, i, evals, result, err>>

\* ------------------------------------------ Seq.distinct / distinct_by
\* distinct() builds Seq(x for x in self if check_key(x)) over a new,
\* empty set seen
Call_distinct ==
    /\ pc = "idle"
    /\ opname' = "distinct" /\ form' = "method"
    /\ seen' = {}
    /\ pc' = "iterating"
    /\ UNCHANGED <<Inputs, Later, prev, mat, Pipe, it, exhausted, pulled, Args,
                   i, out, evals, result, err>>

\* distinct_by(key_selector) builds
\* Seq(e for e in self if check_key(key_selector(e)))
Call_distinct_by(sl) ==
    /\ pc = "idle"
    /\ opname' = "distinct_by" /\ form' = "method" /\ sel' = sl
    /\ seen' = {}
    /\ pc' = "iterating"
    /\ UNCHANGED <<Inputs, Later, prev, mat, Pipe, it, exhausted, pulled, n, p, fn,
                   i, out, evals, result, err>>

\* the key check_key is called with
DistinctKey(x) == IF opname = "distinct" THEN x ELSE sel[x]

\* check_key that never records a key
SeenAfter_forget(sn, key) == sn

\* seen.add(key)
SeenAfter(sn, key) == sn \cup {key}

\* one iteration of the generator expression: check_key returns False for
\* a key in seen, else records the key and returns True
DistinctStep ==
    /\ opname \in {"distinct", "distinct_by"} /\ pc = "iterating"
    /\ IF HasNext
       THEN /\ PullOne
            /\ IF DistinctKey(Peek) \in seen
               THEN UNCHANGED <<seen, out>>
               ELSE seen' = SeenAfter(seen, DistinctKey(Peek)) /\ out' = Append(out, Peek)
            /\ UNCHANGED pc
       ELSE /\ PullNone
            /\ pc' = "done"
            /\ UNCHANGED <<seen, out>>
    /\ UNCHANGED <<Inputs, Later, prev, mat, Pipe, opname, form, Args, i, evals, result, err>>

\* ---------------------------------------------------------- Seq.partition
\* partition(predicate) starts with true_seq, false_seq = [], []
Call_partition(pred) ==
    /\ pc = "idle" /\ kind # "cycle"
    /\ opname' = "partition" /\ form' = "method" /\ p' = pred
    /\ out' = <<<<>>, <<>>>>
    /\ pc' = "partitioning"
    /\ UNCHANGED <<Inputs, Aux, it, exhausted, pulled, n, sel, fn, i, evals, result, err>>

\* a partition with the two lists mixed up
PartitionPut_swapped(parts, x, ok) ==
    IF ok THEN <<parts[1], Append(parts[2], x)>>
    ELSE <<Append(parts[1], x), parts[2]>>

\* true_seq.append(element) or false_seq.append(element)
PartitionPut(parts, x, ok) ==
    IF ok THEN <<Append(parts[1], x), parts[2]>>
    ELSE <<parts[1], Append(parts[2], x)>>

\* one iteration of "for element in self", then "return true_seq, false_seq"
PartitionStep ==
    /\ opname = "partition" /\ pc = "partitioning"
    /\ IF HasNext
       THEN /\ PullOne
            /\ evals' = Append(evals, 1)
            /\ out' = PartitionPut(out, Peek, p[Peek])
            /\ UNCHANGED pc
       ELSE /\ PullNone
            /\ pc' = "done"
            /\ UNCHANGED <<out, evals>>
    /\ UNCHANGED <<Inputs, Aux, opname, form, Args, i, result, err>>

\* ------------------------------------------- Seq.associate / associate_by
\* the value half of the caller's fn: the element, its successor, or 0
ValueOf(vname, x) ==
    CASE vname = "same" -> x
      [] vname = "succ" -> x + 1
      [] vname = "zero" -> 0

\* a dict that keeps the value a key got first
DictPut_keepfirst(d, key, val) ==
    [x \in (DOMAIN d) \cup {key} |-> IF x \in DOMAIN d THEN d[x] ELSE val]

\* dict(): a later pair replaces the value of an equal key
DictPut(d, key, val) ==
    [x \in (DOMAIN d) \cup {key} |-> IF x = key THEN val ELSE d[x]]

\* dict(pairs), pair by pair
RECURSIVE DictOf(_, _)
DictOf(d, pairs) ==
    IF pairs = <<>> THEN d
    ELSE DictOf(DictPut(d, Head(pairs)[1], Head(pairs)[2]), Tail(pairs))

\* dict(fn(d) for d in self)
associate(s, kf, vname) ==
    DictOf(<<>>, [k \in 1..Len(s) |-> <<kf[s[k]], ValueOf(vname, s[k])>>])

\* dict((key_selector(d), d) for d in self)
associate_by(s, kf) ==
    DictOf(<<>>, [k \in 1..Len(s) |-> <<kf[s[k]], s[k]>>])

Call_associate(sl, vname) ==
    /\ pc = "idle" /\ kind # "cycle"
    /\ Traverse
    /\ sel' = sl /\ fn' = vname
    /\ Return("associate", associate(source, sl, vname))

Call_associate_by(sl) ==
    /\ pc = "idle" /\ kind # "cycle"
    /\ Traverse
    /\ sel' = sl /\ fn' = "same"
    /\ Return("associate_by", associate_by(source, sl))

\* the rearrangements of the positions 1..len
Perms(len) == {f \in [1..len -> 1..len] : \A j, k \in 1..len : f[j] = f[k] => j = k}

\* --------------------------------------------------------- Seq.shuffled
\* random.Random(seed), as a small linear congruential generator: the
\* state after seeding, the state after a draw, the draw below k
RngSeeded(seed) == seed % 7
RngNext(state) == (3 * state + 1) % 7
RandBelow(state, k) == state % k

\* s with the elements at positions j and k exchanged
Swap(s, j, k) == [s EXCEPT ![j] = s[k], ![k] = s[j]]

\* rng.shuffle(x): for i from the last index down to the second,
\* exchange x[i] with x[randbelow(i + 1)]
RECURSIVE ShuffleFrom(_, _, _)
ShuffleFrom(lst, idx, state) ==
    IF idx < 2 THEN lst
    ELSE ShuffleFrom(Swap(lst, idx, RandBelow(state, idx) + 1), idx - 1, RngNext(state))

\* a shuffle that never uses the generator it is given
RngIsNone_always(sd) == TRUE

\* "if rng is None"
RngIsNone(sd) == sd = NoneVal

\* what elements can be after the shuffle: any rearrangement under the
\* module's own generator, one under a seeded random.Random
Shuffles(s, sd) ==
    IF RngIsNone(sd)
    THEN {[k \in 1..Len(s) |-> s[f[k]]] : f \in Perms(Len(s))}
    ELSE {ShuffleFrom(s, Len(s), RngSeeded(sd))}

\* a shuffle of the caller's own list
CallerList_aliased(src, elements) == elements

\* elements = list(self) is a new list: the caller's list is not the one
\* shuffled
CallerList(src, elements) == src

\* shuffled(rng): list(self) traverses the source, the list is shuffled
\* and wrapped; sd is the seed of rng, None for no rng
Call_shuffled(sd) ==
    /\ pc = "idle" /\ kind # "cycle"
    /\ Traverse
    /\ opname' = "shuffled" /\ form' = "method" /\ n' = sd
    /\ \E elements \in Shuffles(source, sd) :
          /\ mat' = elements
          /\ source' = IF kind = "list" THEN CallerList(source, elements) ELSE source
    /\ pc' = "materialized"
    /\ UNCHANGED <<kind, Later, prev, seen, Pipe, p, sel, fn, i, out, evals, result, err>>

\* shuffled is called again on an equal sequence, with a new random.Random
\* of the same seed (or again without one)
Then_shuffled ==
    /\ pc = "materialized" /\ opname = "shuffled" /\ form = "method" /\ late = <<>>
    /\ prev' = mat
    /\ form' = "again"
    /\ \E elements \in Shuffles(source, n) :
          /\ mat' = elements
          /\ source' = IF kind = "list" THEN CallerList(source, elements) ELSE source
    /\ UNCHANGED <<kind, Later, seen, Pipe, it, exhausted, pulled, opname, Args, pc,
                   i, out, evals, result, err>>

\* the operations that return Seq(<a list they built>)
Eager == {"sorted", "sorted_by", "sorted_desc", "sorted_by_desc", "shuffled"}

\* the caller appends an element to its list after the eager call
SourceGrows ==
    /\ pc = "materialized" /\ opname \in Eager
    /\ kind = "list" /\ late = <<>>
    /\ \E v \in Value : late' = <<v>>
    /\ UNCHANGED <<Inputs, trav, gen, prev, mat, seen, Pipe, it, exhausted, pulled,
                   opname, form, Args, pc, i, out, evals, result, err>>


\* ------------------------------------------------------ Seq.any / Seq.all
\* any(predicate) is any(predicate(d) for d in self): nothing is pulled
\* before the builtin asks for the first value
Call_any(pred) ==
    /\ pc = "idle"
    /\ opname' = "any" /\ form' = "method" /\ p' = pred
    /\ pc' = "iterating"
    /\ UNCHANGED <<Inputs, Aux, it, exhausted, pulled, n, sel, fn, i, out, evals, result, err>>

\* all(predicate) is all(predicate(d) for d in self)
Call_all(pred) ==
    /\ pc = "idle"
    /\ opname' = "all" /\ form' = "method" /\ p' = pred
    /\ pc' = "iterating"
    /\ UNCHANGED <<Inputs, Aux, it, exhausted, pulled, n, sel, fn, i, out, evals, result, err>>

\* a builtin that looks at every value before it answers
Decides_never(opn, b) == FALSE

\* the builtin any returns at the first true value, all at the first false
Decides(opn, b) == IF opn = "any" THEN b ELSE ~b

\* one iteration of the builtin: the next value of the generator
\* expression is predicate(d) for the next element d
AnyAllStep ==
    /\ opname \in {"any", "all"} /\ pc = "iterating"
    /\ IF HasNext
       THEN /\ PullOne
            /\ IF Decides(opname, p[Peek])
               THEN pc' = "done" /\ result' = (opname = "any")
               ELSE UNCHANGED <<pc, result>>
       ELSE /\ PullNone
            /\ pc' = "done"
            /\ result' = (opname = "all")
    /\ UNCHANGED <<Inputs, Aux, opname, form, Args, i, out, evals, err>>

\* --------------------------------------------------- the free functions
\* the operations whose free function is followed
FreeOps ==
    {"take", "drop", "drop_while", "take_while", "chunked", "distinct_by", "sorted_by",
     "associate", "max_by_or_none", "reduce_or_none", "partition"}

\* a test for the omitted source that takes an empty list for omitted
SequenceIsNone_falsy(given, s) == ~given \/ (kind = "list" /\ s = <<>>)

\* "if sequence is None": the source argument was left out
SequenceIsNone(given, s) == ~given

\* Seq(s).f(arg) on a source nothing has pulled from: a deferred
\* operation returns its Seq, an eager one traverses s and returns
SeqMethod ==
    CASE opname \in {"take", "drop", "drop_while", "take_while", "distinct_by"} ->
           /\ pc' = "iterating"
           /\ it' = 0 /\ exhausted' = FALSE /\ pulled' = 0
           /\ out' = <<>> /\ result' = NoneVal /\ err' = "" /\ mat' = <<>>
      [] opname = "chunked" ->
           /\ IF ChunkSizeInvalid(n)
              THEN pc' = "raised" /\ err' = "ValueError"
              ELSE pc' = "iterating" /\ err' = ""
           /\ it' = 0 /\ exhausted' = FALSE /\ pulled' = 0
           /\ out' = <<>> /\ result' = NoneVal /\ mat' = <<>>
      [] opname = "partition" ->
           /\ pc' = "partitioning"
           /\ it' = 0 /\ exhausted' = FALSE /\ pulled' = 0
           /\ out' = <<<<>>, <<>>>> /\ result' = NoneVal /\ err' = "" /\ mat' = <<>>
      [] opname = "sorted_by" ->
           /\ Traverse
           /\ pc' = "materialized" /\ mat' = sorted_by(source, sel)
           /\ out' = <<>> /\ result' = NoneVal /\ err' = ""
      [] opname \in {"associate", "max_by_or_none", "reduce_or_none"} ->
           /\ Traverse
           /\ pc' = "done"
           /\ result' = CASE opname = "associate" -> associate(source, sel, fn)
                          [] opname = "max_by_or_none" -> max_by_or_none(source, sel)
                          [] opname = "reduce_or_none" -> reduce_or_none(source, fn)
           /\ out' = <<>> /\ err' = "" /\ mat' = <<>>

\* After the method call has settled, the free function of the same
\* operation is called with the same arguments and an equal source that
\* nothing has pulled from, or without a source:
\*     if sequence is None: return lambda s: Seq(s).f(arg)
\*     return Seq(sequence).f(arg)
Call_free(given) ==
    /\ pc \in {"done", "raised", "materialized"}
    /\ form = "method" /\ opname \in FreeOps
    /\ prev' = [pc |-> pc, out |-> out, result |-> result, err |-> err, mat |-> mat]
    /\ form' = IF given THEN "direct" ELSE "curried"
    /\ i' = 0 /\ evals' = <<>> /\ seen' = {}
    /\ IF SequenceIsNone(given, source)
       THEN /\ pc' = "closure"
            /\ it' = 0 /\ exhausted' = FALSE /\ pulled' = 0
            /\ out' = <<>> /\ result' = NoneVal /\ err' = "" /\ mat' = <<>>
       ELSE SeqMethod
    /\ UNCHANGED <<Inputs, Pipe, Later, opname, Args>>

\* the closure receives the source: Seq(s).f(arg)
ApplyFree ==
    /\ pc = "closure" /\ opname \in FreeOps \ {"chunked"}
    /\ SeqMethod
    /\ UNCHANGED <<Inputs, Pipe, Later, prev, seen, opname, form, Args, i, evals>>

Next ==
    \/ \E cnt \in 0..MaxN : Call_take(cnt)
    \/ TakeStep
    \/ \E pred \in Predicates : Call_drop_while(pred)
    \/ DropWhileStep
    \/ DropWhileRest
    \/ \E pred \in Predicates : Call_take_while(pred)
    \/ TakeWhileStep
    \/ \E size \in -1..MaxN : Call_Seq_chunked(size)
    \/ \E size \in -1..MaxN : Call_chunked(size)
    \/ \E size \in -1..MaxN : Call_chunked_curried(size)
    \/ ApplyClosure
    \/ ChunkedStep
    \/ \E sl \in Selectors : Call_max_by_or_none(sl)
    \/ \E sl \in Selectors : Call_min_by_or_none(sl)
    \/ \E sl \in Selectors : Call_max_by(sl)
    \/ \E sl \in Selectors : Call_min_by(sl)
    \/ Call_first_or_none
    \/ Call_last_or_none
    \/ Call_single_or_none
    \/ \E opn \in {"left", "right"} : Call_reduce_or_none(opn)
    \/ \E opn \in {"left", "right"} : Call_reduce(opn)
    \/ Call_sum
    \/ Call_sum_or_none
    \/ Call_max_or_none
    \/ Call_min_or_none
    \/ Call_max
    \/ Call_min
    \/ Call_first
    \/ Call_last
    \/ Call_single
    \/ \E cnt \in 0..MaxN : Call_drop(cnt)
    \/ Then_drop
    \/ DropStep
    \/ Call_sorted
    \/ Call_sorted_desc
    \/ \E sl \in Selectors : Call_sorted_by(sl)
    \/ \E sl \in Selectors : Call_sorted_by_desc(sl)
    \/ Then_sorted
    \/ ToList
    \/ Call_distinct
    \/ \E sl \in Selectors : Call_distinct_by(sl)
    \/ DistinctStep
    \/ \E pred \in Predicates : Call_partition(pred)
    \/ PartitionStep
    \/ \E sl \in Selectors, vname \in {"same", "succ", "zero"} : Call_associate(sl, vname)
    \/ \E sl \in Selectors : Call_associate_by(sl)
    \/ \E given \in BOOLEAN : Call_free(given)
    \/ ApplyFree
    \/ \E sd \in {NoneVal} \cup 0..MaxN : Call_shuffled(sd)
    \/ Then_shuffled
    \/ SourceGrows
    \/ \E pred \in Predicates : Call_any(pred)
    \/ \E pred \in Predicates : Call_all(pred)
    \/ AnyAllStep

Spec == Init /\ [][Next]_vars

\* The caller's thread keeps running: to_list takes its next step whenever
\* it has one.
FairSpec == Spec /\ WF_vars(Next)

\* ------------------------------------------------- chains of deferred stages
\* A chain is followed by shape: how many items move and who is called,
\* not which values; what a caller-supplied function returns is its
\* caller's choice at every call.

\* the counts given to take, drop and chunked in a chain
ChainCounts == {1, 2}

\* a tuple or a list of items
Coll(shape, items) == [t |-> shape, kids |-> items]

\* hash(x) succeeds: a list is unhashable, a tuple as hashable as its items
RECURSIVE Hashable(_)
Hashable(x) ==
    \/ x.t = "atom"
    \/ x.t = "tuple" /\ \A k \in 1..Len(x.kids) : Hashable(x.kids[k])

\* the local variables of a stage's iterator before its first next()
FreshStage == [i |-> 0, flag |-> FALSE, buf |-> <<>>]

\* a deferred operation can be called on a Seq nothing has driven yet
Buildable == pc \in {"idle", "building"} /\ Len(chain) < MaxChain

\* an operation that puts its iterator into the receiver and returns it
Stacked_inplace(ch, stage) ==
    IF ch = <<>> THEN <<stage>> ELSE [ch EXCEPT ![Len(ch)] = stage]

\* return Seq(...): a new Seq over the new iterator; the Seqs there are
\* keep the iterable they were constructed with
Stacked(ch, stage) == Append(ch, stage)

\* a constructor that primes its iterator with the first element
Build_priming(op, cnt) ==
    /\ chain' = Stacked(chain, [op |-> op, n |-> cnt])
    /\ st' = Append(st, FreshStage)
    /\ opname' = op /\ form' = "method"
    /\ pc' = "building"
    /\ IF HasNext THEN PullOne ELSE PullNone
    /\ UNCHANGED <<Inputs, Later, prev, mat, seen, calls, lvl, tok,
                   Args, i, out, evals, result, err>>

\* Seq(<iterator over self>): __init__ stores the iterator it is given;
\* making that iterator calls iter(self) at most and next() never
Build(op, cnt) ==
    /\ chain' = Stacked(chain, [op |-> op, n |-> cnt])
    /\ st' = Append(st, FreshStage)
    /\ opname' = op /\ form' = "method"
    /\ pc' = "building"
    /\ UNCHANGED <<Inputs, Later, prev, mat, seen, calls, lvl, tok, it, exhausted, pulled,
                   Args, i, out, evals, result, err>>

Stage_filter == Buildable /\ Build("filter", 0)
Stage_map == Buildable /\ Build("map", 0)
Stage_map_not_none == Buildable /\ Build("map_not_none", 0)
Stage_flat_map == Buildable /\ Build("flat_map", 0)
Stage_flatten == Buildable /\ Build("flatten", 0)
Stage_drop(cnt) == Buildable /\ Build("drop", cnt)
Stage_drop_while == Buildable /\ Build("drop_while", 0)
Stage_take(cnt) == Buildable /\ Build("take", cnt)
Stage_take_while == Buildable /\ Build("take_while", 0)
Stage_enumerate == Buildable /\ Build("enumerate", 0)
Stage_distinct == Buildable /\ Build("distinct", 0)
Stage_distinct_by == Buildable /\ Build("distinct_by", 0)

\* chunked(size) checks size before it makes its generator
Stage_chunked(size) ==
    IF ChunkSizeInvalid(size)
    THEN /\ Buildable
         /\ opname' = "chunked" /\ form' = "method"
         /\ pc' = "raised" /\ err' = "ValueError"
         /\ UNCHANGED <<Inputs, Later, prev, mat, seen, Pipe, it, exhausted, pulled,
                        Args, i, out, evals, result>>
    ELSE Buildable /\ Build("chunked", size)

\* to_list(): list(self) asks the outermost stage for its first item
Drive_to_list ==
    /\ pc \in {"idle", "building"}
    /\ opname' = "to_list"
    /\ pc' = "driving"
    /\ lvl' = Len(chain)
    /\ tok' = [dir |-> "req", item |-> Atom]
    /\ UNCHANGED <<Inputs, Later, prev, mat, seen, chain, calls, st, it, exhausted, pulled,
                   form, Args, i, out, evals, result, err>>

\* the stage at lvl calls next() on the one below it
AskBelow == lvl' = lvl - 1 /\ tok' = [dir |-> "req", item |-> Atom]
\* the stage at lvl returns x to the one above it
Yield(x) == lvl' = lvl + 1 /\ tok' = [dir |-> "item", item |-> x]
\* the stage at lvl raises StopIteration to the one above it
StopAbove == lvl' = lvl + 1 /\ tok' = [dir |-> "stop", item |-> Atom]
\* a caller-supplied function is called
Called == calls' = Sat(calls + 1)
\* the stage at lvl assigns its local variables
Local(f) == st' = [st EXCEPT ![lvl] = f]
\* it is the turn of a stage made by op
At(op) == pc = "driving" /\ lvl \in 1..Len(chain) /\ chain[lvl].op = op
\* an exception leaves the chain
Raise(e) == pc' = "raised" /\ err' = e /\ UNCHANGED <<lvl, tok>>
\* what no stage touches
StageFrame ==
    UNCHANGED <<Inputs, Later, prev, mat, seen, chain, it, exhausted, pulled, opname, form,
                Args, i, out, evals, result>>

\* next() of the source iterator
SourceNext ==
    /\ pc = "driving" /\ lvl = 0
    /\ IF HasNext THEN PullOne /\ Yield(Atom) ELSE PullNone /\ StopAbove
    /\ UNCHANGED <<Inputs, Later, prev, mat, seen, chain, calls, st, opname, form,
                   Args, pc, i, out, evals, result, err>>

\* list(): appends the item and asks again, returns on StopIteration
ToListNext ==
    /\ pc = "driving" /\ lvl = Len(chain) + 1
    /\ IF tok.dir = "item"
       THEN /\ i' = Sat(i + 1)
            /\ lvl' = Len(chain) /\ tok' = [dir |-> "req", item |-> Atom]
            /\ UNCHANGED pc
       ELSE /\ pc' = "done"
            /\ UNCHANGED <<i, lvl, tok>>
    /\ UNCHANGED <<Inputs, Later, prev, mat, seen, chain, calls, st, it, exhausted, pulled,
                   opname, form, Args, out, evals, result, err>>

\* filter(predicate, self): asks below until predicate(item) is true
Next_filter ==
    /\ At("filter")
    /\ CASE tok.dir = "req" -> AskBelow /\ UNCHANGED calls
         [] tok.dir = "stop" -> StopAbove /\ UNCHANGED calls
         [] tok.dir = "item" ->
              /\ Called
              /\ \E keep \in BOOLEAN : IF keep THEN Yield(tok.item) ELSE AskBelow
    /\ UNCHANGED <<st, pc, err>> /\ StageFrame

\* a map that fetches one element ahead of the one it returns
Next_map_prefetch ==
    /\ At("map")
    /\ CASE tok.dir = "req" -> AskBelow /\ UNCHANGED <<calls, st>>
         [] tok.dir = "stop" ->
              /\ IF st[lvl].buf = <<>> THEN StopAbove ELSE Yield(Atom)
              /\ Local([st[lvl] EXCEPT !.buf = <<>>])
              /\ UNCHANGED calls
         [] tok.dir = "item" ->
              /\ Called
              /\ IF st[lvl].buf = <<>> THEN AskBelow ELSE Yield(Atom)
              /\ Local([st[lvl] EXCEPT !.buf = <<Atom>>])
    /\ UNCHANGED <<pc, err>> /\ StageFrame

\* map(fn, self): returns fn(item)
Next_map ==
    /\ At("map")
    /\ CASE tok.dir = "req" -> AskBelow /\ UNCHANGED calls
         [] tok.dir = "stop" -> StopAbove /\ UNCHANGED calls
         [] tok.dir = "item" -> Called /\ Yield(Atom)
    /\ UNCHANGED <<st, pc, err>> /\ StageFrame

\* (r for d in self if (r := fn(d)) is not None)
Next_map_not_none ==
    /\ At("map_not_none")
    /\ CASE tok.dir = "req" -> AskBelow /\ UNCHANGED calls
         [] tok.dir = "stop" -> StopAbove /\ UNCHANGED calls
         [] tok.dir = "item" ->
              /\ Called
              /\ \E none \in BOOLEAN : IF none THEN AskBelow ELSE Yield(Atom)
    /\ UNCHANGED <<st, pc, err>> /\ StageFrame

\* the inner loop "for jj in ii" over items: returns the first item and
\* keeps the rest, or asks below when ii is empty
Unpack(items) ==
    IF items = <<>>
    THEN AskBelow /\ Local([st[lvl] EXCEPT !.buf = <<>>])
    ELSE Yield(Head(items)) /\ Local([st[lvl] EXCEPT !.buf = Tail(items)])

\* (jj for ii in (fn(d) for d in self) for jj in ii)
Next_flat_map ==
    /\ At("flat_map")
    /\ CASE tok.dir = "req" -> Unpack(st[lvl].buf) /\ UNCHANGED calls
         [] tok.dir = "stop" -> StopAbove /\ UNCHANGED <<calls, st>>
         [] tok.dir = "item" ->
              /\ Called
              /\ \E len \in {0} \cup ChainCounts : Unpack([k \in 1..len |-> Atom])
    /\ UNCHANGED <<pc, err>> /\ StageFrame

\* (jj for ii in self for jj in ii); iter(ii) raises TypeError for an
\* element that is no iterable
Next_flatten ==
    /\ At("flatten")
    /\ CASE tok.dir = "req" -> Unpack(st[lvl].buf) /\ UNCHANGED <<pc, err>>
         [] tok.dir = "stop" -> StopAbove /\ UNCHANGED <<st, pc, err>>
         [] tok.dir = "item" ->
              IF tok.item.t = "atom"
              THEN Raise("TypeError") /\ UNCHANGED st
              ELSE Unpack(tok.item.kids) /\ UNCHANGED <<pc, err>>
    /\ UNCHANGED calls /\ StageFrame

\* (x for i, x in enumerate(self) if i >= n)
Next_drop ==
    /\ At("drop")
    /\ CASE tok.dir = "req" -> AskBelow /\ UNCHANGED st
         [] tok.dir = "stop" -> StopAbove /\ UNCHANGED st
         [] tok.dir = "item" ->
              /\ Local([st[lvl] EXCEPT !.i = Sat(@ + 1)])
              /\ IF DropKeeps(st[lvl].i, chain[lvl].n) THEN Yield(tok.item) ELSE AskBelow
    /\ UNCHANGED <<calls, pc, err>> /\ StageFrame

\* (item for i, item in enumerate(self) if i < n): an item with i >= n
\* is skipped and the next one asked for
Next_take ==
    /\ At("take")
    /\ CASE tok.dir = "req" -> AskBelow /\ UNCHANGED st
         [] tok.dir = "stop" -> StopAbove /\ UNCHANGED st
         [] tok.dir = "item" ->
              /\ Local([st[lvl] EXCEPT !.i = Sat(@ + 1)])
              /\ IF TakeKeeps(st[lvl].i, chain[lvl].n) THEN Yield(tok.item) ELSE AskBelow
    /\ UNCHANGED <<calls, pc, err>> /\ StageFrame

\* enumerate(self): returns (i, item)
Next_enumerate ==
    /\ At("enumerate")
    /\ CASE tok.dir = "req" -> AskBelow /\ UNCHANGED st
         [] tok.dir = "stop" -> StopAbove /\ UNCHANGED st
         [] tok.dir = "item" ->
              /\ Local([st[lvl] EXCEPT !.i = Sat(@ + 1)])
              /\ Yield(Coll("tuple", <<Atom, tok.item>>))
    /\ UNCHANGED <<calls, pc, err>> /\ StageFrame

\* drop_while's generator: predicate is called until it is false once
\* (flag), from then on "yield from iterator"
Next_drop_while ==
    /\ At("drop_while")
    /\ CASE tok.dir = "req" -> AskBelow /\ UNCHANGED <<calls, st>>
         [] tok.dir = "stop" -> StopAbove /\ UNCHANGED <<calls, st>>
         [] tok.dir = "item" ->
              IF st[lvl].flag
              THEN Yield(tok.item) /\ UNCHANGED <<calls, st>>
              ELSE /\ Called
                   /\ \E skip \in BOOLEAN :
                         IF skip
                         THEN AskBelow /\ UNCHANGED st
                         ELSE Yield(tok.item) /\ Local([st[lvl] EXCEPT !.flag = TRUE])
    /\ UNCHANGED <<pc, err>> /\ StageFrame

\* take_while's generator: returns at the first item predicate rejects
\* (flag) and is finished from then on
Next_take_while ==
    /\ At("take_while")
    /\ CASE tok.dir = "req" ->
              /\ IF st[lvl].flag THEN StopAbove ELSE AskBelow
              /\ UNCHANGED <<calls, st>>
         [] tok.dir = "stop" ->
              StopAbove /\ Local([st[lvl] EXCEPT !.flag = TRUE]) /\ UNCHANGED calls
         [] tok.dir = "item" ->
              /\ Called
              /\ \E keep \in BOOLEAN :
                    IF keep
                    THEN Yield(tok.item) /\ UNCHANGED st
                    ELSE StopAbove /\ Local([st[lvl] EXCEPT !.flag = TRUE])
    /\ UNCHANGED <<pc, err>> /\ StageFrame

\* chunked's generator: list(islice(it, size)) collects up to size items
\* in buf; an empty chunk ends the generator (flag)
Next_chunked ==
    /\ At("chunked")
    /\ CASE tok.dir = "req" ->
              /\ IF st[lvl].flag THEN StopAbove ELSE AskBelow
              /\ UNCHANGED st
         [] tok.dir = "stop" ->
              IF st[lvl].buf = <<>>
              THEN StopAbove /\ Local([st[lvl] EXCEPT !.flag = TRUE])
              ELSE /\ Yield(Coll("list", st[lvl].buf))
                   /\ Local([st[lvl] EXCEPT !.buf = <<>>])
         [] tok.dir = "item" ->
              IF Len(st[lvl].buf) + 1 = chain[lvl].n
              THEN /\ Yield(Coll("list", Append(st[lvl].buf, tok.item)))
                   /\ Local([st[lvl] EXCEPT !.buf = <<>>])
              ELSE /\ AskBelow
                   /\ Local([st[lvl] EXCEPT !.buf = Append(@, tok.item)])
    /\ UNCHANGED <<calls, pc, err>> /\ StageFrame

\* (x for x in self if check_key(x)): "key in seen" hashes the item; the
\* first key is new (flag: seen is not empty), a later one new or not
Next_distinct ==
    /\ At("distinct")
    /\ CASE tok.dir = "req" -> AskBelow /\ UNCHANGED <<st, pc, err>>
         [] tok.dir = "stop" -> StopAbove /\ UNCHANGED <<st, pc, err>>
         [] tok.dir = "item" ->
              IF ~Hashable(tok.item)
              THEN Raise("TypeError") /\ UNCHANGED st
              ELSE /\ \E known \in {b \in BOOLEAN : b => st[lvl].flag} :
                         IF known
                         THEN AskBelow /\ UNCHANGED st
                         ELSE Yield(tok.item) /\ Local([st[lvl] EXCEPT !.flag = TRUE])
                   /\ UNCHANGED <<pc, err>>
    /\ UNCHANGED calls /\ StageFrame

\* (e for e in self if check_key(key_selector(e)))
Next_distinct_by ==
    /\ At("distinct_by")
    /\ CASE tok.dir = "req" -> AskBelow /\ UNCHANGED <<calls, st>>
         [] tok.dir = "stop" -> StopAbove /\ UNCHANGED <<calls, st>>
         [] tok.dir = "item" ->
              /\ Called
              /\ \E known \in {b \in BOOLEAN : b => st[lvl].flag} :
                    IF known
                    THEN AskBelow /\ UNCHANGED st
                    ELSE Yield(tok.item) /\ Local([st[lvl] EXCEPT !.flag = TRUE])
    /\ UNCHANGED <<pc, err>> /\ StageFrame

\* a Seq over a source of MaxLen elements at most, nothing called yet
ChainInit ==
    /\ Init
    /\ \A k \in 1..Len(source) : source[k] = 0

ChainNext ==
    \/ Stage_filter
    \/ Stage_map
    \/ Stage_map_not_none
    \/ Stage_flat_map
    \/ Stage_flatten
    \/ \E cnt \in ChainCounts : Stage_drop(cnt)
    \/ Stage_drop_while
    \/ \E cnt \in ChainCounts : Stage_take(cnt)
    \/ Stage_take_while
    \/ \E size \in {0} \cup ChainCounts : Stage_chunked(size)
    \/ Stage_enumerate
    \/ Stage_distinct
    \/ Stage_distinct_by
    \/ Drive_to_list
    \/ SourceNext
    \/ ToListNext
    \/ Next_filter
    \/ Next_map
    \/ Next_map_not_none
    \/ Next_flat_map
    \/ Next_flatten
    \/ Next_drop
    \/ Next_take
    \/ Next_enumerate
    \/ Next_drop_while
    \/ Next_take_while
    \/ Next_chunked
    \/ Next_distinct
    \/ Next_distinct_by

ChainSpec == ChainInit /\ [][ChainNext]_vars


\* ------------------------------------------- several traversals of a source
\* Seq.__iter__ is iter(self._iterable). Elements are followed by their
\* position in the source: got lists the positions a consumer was handed.

\* a Seq that keeps one iterator for its list
IterOfList_cached == "same"
\* iter(a list): a new iterator at the first element
IterOfList == "new"

\* an iterator that can be copied by asking for it again
IterOfIterator_copied == "new"
\* iter(an iterator): the iterator itself
IterOfIterator == "same"

\* a derived Seq that runs its pipeline anew for every traversal
IterOfGenerator_restarting == "new"
\* iter(a generator, a map or a filter object): the object itself
IterOfGenerator == "same"

\* iter(self) of a Seq constructed over the source
IterOfSource == IF kind = "list" THEN IterOfList ELSE IterOfIterator

\* the iterator a derived Seq wraps before its first next()
MadeGen(op) ==
    [op |-> op, where |-> IF IterOfSource = "new" THEN "own" ELSE "src",
     pos |-> 0, spent |-> FALSE]

\* Seq(source).map(fn) is Seq(map(fn, self)), filter_not_none() is
\* Seq(d for d in self if d is not None): both call iter(self) when they
\* are made and next() never
Derive(op) ==
    /\ gen.op = ""
    /\ gen' = MadeGen(op)
    /\ opname' = op
    /\ UNCHANGED <<Inputs, late, trav, prev, mat, seen, Pipe, it, exhausted, pulled,
                   form, Args, pc, i, out, evals, result, err>>

\* a terminal operation of consumer c calls iter() on the Seq over the
\* source ("base") or on the derived Seq
Open(c, target) ==
    /\ trav[c].st # "open" /\ trav[c].runs < MaxRuns
    /\ target = "derived" => gen.op # ""
    /\ trav' = [trav EXCEPT ![c] =
                  [target |-> target,
                   where |-> IF target = "derived" THEN "gen"
                             ELSE IF IterOfSource = "new" THEN "own" ELSE "src",
                   pos |-> 0, got |-> trav[c].got, from |-> Len(trav[c].got),
                   st |-> "open", runs |-> trav[c].runs + 1,
                   stale |-> target = "derived" /\ gen.spent]]
    /\ gen' = IF target = "derived" /\ IterOfGenerator = "new" /\ gen.where = "own"
              THEN MadeGen(gen.op) ELSE gen
    /\ UNCHANGED <<Inputs, late, prev, mat, seen, Pipe, it, exhausted, pulled,
                   opname, form, Args, pc, i, out, evals, result, err>>

\* consumer c is handed the element at position k
Handed(c, k) == [trav[c] EXCEPT !.got = Append(@, k)]
\* consumer c gets StopIteration and its terminal operation returns
Stopped(c) == [trav[c] EXCEPT !.st = "done"]

\* next() on an iterator of consumer c's own over the list
Next_own(c) ==
    /\ trav[c].st = "open" /\ trav[c].where = "own"
    /\ trav' = [trav EXCEPT ![c] =
                  IF trav[c].pos < Len(source)
                  THEN [Handed(c, trav[c].pos + 1) EXCEPT !.pos = @ + 1]
                  ELSE Stopped(c)]
    /\ UNCHANGED <<Inputs, late, gen, prev, mat, seen, Pipe, it, exhausted, pulled,
                   opname, form, Args, pc, i, out, evals, result, err>>

\* next() on the one-shot source iterator
Next_shared(c) ==
    /\ trav[c].st = "open" /\ trav[c].where = "src"
    /\ IF it < Len(source)
       THEN /\ trav' = [trav EXCEPT ![c] = Handed(c, it + 1)]
            /\ PullOne
       ELSE /\ trav' = [trav EXCEPT ![c] = Stopped(c)]
            /\ PullNone
    /\ UNCHANGED <<Inputs, late, gen, prev, mat, seen, Pipe,
                   opname, form, Args, pc, i, out, evals, result, err>>

\* where the iterator under the derived Seq stands
GenPos == IF gen.where = "own" THEN gen.pos ELSE it
\* the positions the derived Seq's iterator can return next: the next one
\* for map, the next one that is not None for filter_not_none
GenNext ==
    {k \in (GenPos + 1)..Len(source) :
        /\ gen.op = "filter_not_none" => source[k] # NoneVal
        /\ \A j \in (GenPos + 1)..(k - 1) : gen.op = "filter_not_none" /\ source[j] = NoneVal}

\* next() on the iterator the derived Seq wraps: it pulls from its own
\* upstream until it has an element to return or the upstream ends
Next_derived(c) ==
    /\ trav[c].st = "open" /\ trav[c].where = "gen"
    /\ LET to == IF gen.spent THEN GenPos
                 ELSE IF GenNext = {} THEN Len(source)
                 ELSE CHOOSE k \in GenNext : TRUE
           stop == gen.spent \/ GenNext = {}
       IN /\ trav' = [trav EXCEPT ![c] = IF stop THEN Stopped(c) ELSE Handed(c, to)]
          /\ gen' = [gen EXCEPT !.spent = stop,
                                !.pos = IF gen.where = "own" THEN to ELSE @]
          /\ IF gen.where = "own"
             THEN UNCHANGED <<it, exhausted, pulled>>
             ELSE /\ it' = to
                  /\ pulled' = Sat(pulled + (to - it))
                  /\ exhausted' = (exhausted \/ (stop /\ ~gen.spent))
    /\ UNCHANGED <<Inputs, late, prev, mat, seen, Pipe,
                   opname, form, Args, pc, i, out, evals, result, err>>

\* the terminal operation of consumer c returns before the end, as first()
\* does after one element
Leave(c) ==
    /\ trav[c].st = "open" /\ Len(trav[c].got) > trav[c].from
    /\ trav' = [trav EXCEPT ![c].st = "left"]
    /\ UNCHANGED <<Inputs, late, gen, prev, mat, seen, Pipe, it, exhausted, pulled,
                   opname, form, Args, pc, i, out, evals, result, err>>

\* a source of elements that are None or 0, finite, nothing pulled
ShareInit ==
    /\ Init
    /\ kind # "cycle"
    /\ \A k \in 1..Len(source) : source[k] \in {NoneVal, 0}

ShareNext ==
    \/ \E op \in {"map", "filter_not_none"} : Derive(op)
    \/ \E c \in Consumers, target \in {"base", "derived"} : Open(c, target)
    \/ \E c \in Consumers : Next_own(c)
    \/ \E c \in Consumers : Next_shared(c)
    \/ \E c \in Consumers : Next_derived(c)
    \/ \E c \in Consumers : Leave(c)

ShareSpec == ShareInit /\ [][ShareNext]_vars

\* ------------------------------------------------------ reference notions
\* the k-th element (from 1) the source produces
StreamAt(k) ==
    IF kind = "cycle" THEN source[((k - 1) % Len(source)) + 1] ELSE source[k]

Range(s) == {s[k] : k \in 1..Len(s)}

\* some element of s fails pr
Fails(s, pr) == \E k \in 1..Len(s) : ~pr[s[k]]

\* position of the first element of s that fails pr, Len(s) + 1 for none
FirstFail(s, pr) ==
    IF Fails(s, pr)
    THEN CHOOSE k \in 1..Len(s) : ~pr[s[k]] /\ \A j \in 1..(k - 1) : pr[s[j]]
    ELSE Len(s) + 1

\* positions whose derived key is minimal / maximal
MinKeyIdx(s, sl) == {k \in 1..Len(s) : \A j \in 1..Len(s) : sl[s[k]] <= sl[s[j]]}
MaxKeyIdx(s, sl) == {k \in 1..Len(s) : \A j \in 1..Len(s) : sl[s[k]] >= sl[s[j]]}
Earliest(S) == CHOOSE k \in S : \A j \in S : k <= j
Latest(S) == CHOOSE k \in S : \A j \in S : k >= j

Lenient == {"first_or_none", "last_or_none", "single_or_none", "reduce_or_none",
            "max_by_or_none", "min_by_or_none"}

\* the sequence has a cardinality the operation accepts
ValidCardinality ==
    IF opname = "single_or_none" THEN kind # "cycle" /\ Len(source) = 1
    ELSE source # <<>>

\* what the lenient operation returns for the empty sequence
EmptyResult ==
    CASE opname = "first_or_none" -> first_or_none(<<>>)
      [] opname = "last_or_none" -> last_or_none(<<>>)
      [] opname = "single_or_none" -> single_or_none(<<>>)
      [] opname = "reduce_or_none" -> reduce_or_none(<<>>, fn)
      [] opname = "max_by_or_none" -> max_by_or_none(<<>>, sel)
      [] opname = "min_by_or_none" -> min_by_or_none(<<>>, sel)

StrictValueError == {"first", "last", "single", "max", "min", "max_by", "min_by"}
StrictTypeError == {"reduce", "sum"}
LenientOps == {"first_or_none", "last_or_none", "single_or_none", "max_or_none",
               "min_or_none", "max_by_or_none", "min_by_or_none",
               "reduce_or_none", "sum_or_none"}

RECURSIVE Flatten(_)
Flatten(ss) == IF ss = <<>> THEN <<>> ELSE Head(ss) \o Flatten(Tail(ss))

\* t lists the elements of s in the order f takes them from s
Rearranges(f, s, t) == Len(t) = Len(s) /\ \A k \in 1..Len(s) : t[k] = s[f[k]]

\* the elements of s at the positions in S, in increasing position
RECURSIVE AtPositions(_, _)
AtPositions(s, S) ==
    IF S = {} THEN <<>>
    ELSE LET m == Earliest(S) IN <<s[m]>> \o AtPositions(s, S \ {m})

\* the positions of s whose key no earlier position has
FirstOfKey(s, kf) == {k \in 1..Len(s) : \A j \in 1..(k - 1) : kf[s[j]] # kf[s[k]]}

\* how much of the source has been looked at
Covered ==
    IF kind = "cycle" THEN (IF pulled >= Len(source) THEN Len(source) ELSE pulled)
    ELSE it

\* the element v settles the answer: it satisfies the predicate of any,
\* or fails the predicate of all
Deciding(v) == (opname = "any" /\ p[v]) \/ (opname = "all" /\ ~p[v])

\* the operations of the chain, innermost first
ChainOps == [k \in 1..Len(chain) |-> chain[k].op]

\* the positions consumer c was handed in the traversal it runs or ran last
Current(c) == SubSeq(trav[c].got, trav[c].from + 1, Len(trav[c].got))

\* ------------------------------------------------------------------ claims

\* C1: consuming Seq(source).take(n) pulls at most n elements from the
\* source.
C1_TakePullsAtMostN ==
    opname = "take" => pulled <= n

\* C2: on an infinite source, take(n).to_list() terminates: once to_list
\* drives the Seq it eventually returns.
C2_TakeTerminatesOnInfinite ==
    (opname = "take" /\ kind = "cycle" /\ pc = "iterating") ~> (pc = "done")

\* C3: when several elements share the minimal derived key,
\* min_by_or_none returns the earliest of them.
C3_MinByOrNoneEarliest ==
    (pc = "done" /\ opname = "min_by_or_none" /\ source # <<>>)
        => result = source[Earliest(MinKeyIdx(source, sel))]

\* C4: when several elements share the maximal derived key,
\* max_by_or_none returns the latest of them.
C4_MaxByOrNoneLatest ==
    (pc = "done" /\ opname = "max_by_or_none" /\ source # <<>>)
        => result = source[Latest(MaxKeyIdx(source, sel))]

C4_Witness ==
    /\ pc = "done" /\ opname = "max_by_or_none"
    /\ Cardinality(MaxKeyIdx(source, sel)) >= 2
    /\ source[Earliest(MaxKeyIdx(source, sel))] # source[Latest(MaxKeyIdx(source, sel))]
    /\ result = source[Latest(MaxKeyIdx(source, sel))]

\* C5: on a non-empty sequence max_by returns the element max_by_or_none
\* returns, and min_by the element min_by_or_none returns.
C5_StrictEqualsLenient ==
    (pc = "done" /\ source # <<>>) =>
        /\ opname = "max_by" => result = max_by_or_none(source, sel)
        /\ opname = "min_by" => result = min_by_or_none(source, sel)

\* C6: chunked with size < 1 raises ValueError as soon as the call has the
\* source, in all three call forms, with nothing pulled and no Seq
\* returned.
C6_ChunkedRejectsEagerly ==
    (opname = "chunked" /\ n < 1 /\ pc # "closure")
        => /\ pc = "raised" /\ err = "ValueError"
           /\ pulled = 0 /\ ~exhausted /\ out = <<>>

C6_Witness ==
    /\ opname = "chunked" /\ form = "curried" /\ n < 1
    /\ pc = "raised" /\ source # <<>>

\* C7: drop_while(p) yields the suffix of the source that starts at the
\* first element failing p, later elements unconditionally, and nothing
\* when p holds for every element.
C7_DropWhileSuffix ==
    opname = "drop_while" =>
        LET first == FirstFail(source, p)
        IN /\ \A k \in 1..Len(out) : out[k] = StreamAt(first + k - 1)
           /\ ~Fails(source, p) => out = <<>>
           /\ pc = "done" => out = SubSeq(source, first, Len(source))

C7_Witness ==
    /\ opname = "drop_while" /\ pc = "done"
    /\ FirstFail(source, p) >= 2
    /\ \E k \in (FirstFail(source, p) + 1)..Len(source) : p[source[k]]
    /\ Len(out) = Len(source) - FirstFail(source, p) + 1

\* C8: while drop_while(p) is consumed, p is called exactly once on every
\* element up to and including the first one it rejects, and never on a
\* later element.
C8_DropWhileEvaluatesOnce ==
    opname = "drop_while" =>
        LET first == FirstFail(source, p)
        IN /\ \A k \in 1..Len(evals) :
                  evals[k] = IF ~Fails(source, p) \/ k <= first THEN 1 ELSE 0
           /\ pc = "done" => Len(evals) = Len(source)
           /\ pc = "rest" => Len(evals) >= first

C8_Witness ==
    /\ opname = "drop_while" /\ pc = "done"
    /\ FirstFail(source, p) >= 2
    /\ \E k \in (FirstFail(source, p) + 1)..Len(source) : p[source[k]] /\ evals[k] = 0

\* C9: take_while(p) yields the longest prefix whose elements satisfy p
\* and pulls nothing after the first failing element: the source ends up
\* one element past the prefix, or exhausted when no element fails.
C9_TakeWhilePrefix ==
    opname = "take_while" =>
        LET first == FirstFail(source, p)
        IN /\ \A k \in 1..Len(out) : out[k] = StreamAt(k) /\ p[out[k]]
           /\ Fails(source, p) => Len(out) < first
           /\ pulled <= Len(out) + 1
           /\ pc = "done" =>
                 /\ out = SubSeq(source, 1, first - 1)
                 /\ pulled = (IF Fails(source, p) THEN Len(out) + 1 ELSE Len(out))
                 /\ it = (IF kind = "cycle" THEN pulled % Len(source) ELSE pulled)
                 /\ exhausted = ~Fails(source, p)

C9_Witness ==
    /\ opname = "take_while" /\ pc = "done"
    /\ FirstFail(source, p) >= 2
    /\ FirstFail(source, p) < Len(source)
    /\ p[source[Len(source)]]
    /\ pulled = FirstFail(source, p)

C11_EmptyStrictRaisesLenientNone ==
    (source = <<>> /\ pc \notin {"idle", "closure"}) =>
        /\ opname \in StrictValueError => pc = "raised" /\ err = "ValueError"
        /\ opname \in StrictTypeError => pc = "raised" /\ err = "TypeError"
        /\ opname \in LenientOps => pc = "done" /\ err = "" /\ result = NoneVal

C11_Witness ==
    /\ source = <<>> /\ opname = "sum"
    /\ pc = "raised" /\ err = "TypeError"

\* C12: single returns the element of a one-element sequence and raises
\* ValueError on zero and on two or more elements, equal ones included;
\* single_or_none returns the element, and None in both other cases.
C12_SingleCardinality ==
    /\ (opname = "single" /\ kind # "cycle") =>
          IF Len(source) = 1
          THEN pc = "done" /\ result = source[1] /\ err = ""
          ELSE pc = "raised" /\ err = "ValueError"
    /\ (opname = "single_or_none" /\ kind # "cycle") =>
          /\ pc = "done" /\ err = ""
          /\ result = IF Len(source) = 1 THEN source[1] ELSE NoneVal

C12_Witness ==
    /\ opname = "single" /\ kind # "cycle"
    /\ Len(source) = 2 /\ source[1] = source[2]
    /\ pc = "raised" /\ err = "ValueError"

\* C13: on a finite re-iterable source take(n) yields the first
\* min(n, len) elements and drop(n) the remaining ones, in source order, so
\* that take(n).to_list() followed by drop(n).to_list() is the source.
C13_TakeDropSplit ==
    (pc = "done" /\ kind = "list") =>
        /\ opname = "take" =>
              /\ out = SubSeq(source, 1, Len(out))
              /\ Len(out) = IF n < Len(source) THEN n ELSE Len(source)
        /\ opname = "drop" =>
              /\ Len(out) = IF n < Len(source) THEN Len(source) - n ELSE 0
              /\ \A k \in 1..Len(out) : out[k] = source[n + k]
        /\ (opname = "drop" /\ form = "again") =>
              /\ prev \o out = source
              /\ Len(prev) = IF n < Len(source) THEN n ELSE Len(source)

C13_Witness ==
    /\ pc = "done" /\ kind = "list"
    /\ opname = "drop" /\ form = "again"
    /\ 0 < n /\ n < Len(source)
    /\ prev # <<>> /\ out # <<>>

\* C14: for size >= 1 on a finite source the chunks concatenate to the
\* source, every chunk but the last has size elements, the last has 1 to
\* size, and no chunk is empty.
C14_ChunkedCovers ==
    (opname = "chunked" /\ pc \in {"iterating", "done"}) =>
        /\ \A k \in 1..Len(out) : Len(out[k]) >= 1 /\ Len(out[k]) <= n
        /\ \A k \in 1..(Len(out) - 1) : Len(out[k]) = n
        /\ \A k \in 1..Len(Flatten(out)) : Flatten(out)[k] = StreamAt(k)
        /\ pc = "done" => Flatten(out) = source

C14_Witness ==
    /\ opname = "chunked" /\ pc = "done"
    /\ Len(out) >= 2
    /\ Len(out[Len(out)]) < n

\* C15: sorted_by and sorted_by_desc return the source rearranged by
\* ascending, respectively descending, key, and elements with equal keys
\* keep their source order in both.
C15_SortedByStable ==
    (opname \in {"sorted_by", "sorted_by_desc"} /\ pc \in {"materialized", "done"}) =>
        /\ \E f \in Perms(Len(source)) :
              /\ Rearranges(f, source, mat)
              /\ \A j, k \in 1..Len(source) :
                    j < k => IF opname = "sorted_by"
                             THEN sel[mat[j]] <= sel[mat[k]]
                             ELSE sel[mat[j]] >= sel[mat[k]]
              /\ \A j, k \in 1..Len(source) :
                    (j < k /\ sel[mat[j]] = sel[mat[k]]) => f[j] < f[k]
        /\ pc = "done" => out = mat

C15_Witness ==
    /\ opname = "sorted_by_desc" /\ pc = "done"
    /\ out # source
    /\ \E j, k \in 1..Len(out) :
          j < k /\ sel[out[j]] = sel[out[k]] /\ out[j] # out[k]

\* C16: sorted() is idempotent: sorting the sorted sequence again gives
\* the same list, an ascending rearrangement of the source.
C16_SortedIdempotent ==
    (opname = "sorted" /\ form = "again" /\ pc \in {"materialized", "done"}) =>
        /\ mat = prev
        /\ \E f \in Perms(Len(source)) : Rearranges(f, source, prev)
        /\ \A j, k \in 1..Len(prev) : j < k => prev[j] <= prev[k]
        /\ pc = "done" => out = prev

C16_Witness ==
    /\ opname = "sorted" /\ form = "again" /\ pc = "done"
    /\ out # source /\ Len(out) >= 3

C18_PartitionSplits ==
    (opname = "partition" /\ pc # "closure") =>
        LET looked == SubSeq(source, 1, it)
        IN /\ out[1] = SelectSeq(looked, LAMBDA x : p[x])
           /\ out[2] = SelectSeq(looked, LAMBDA x : ~p[x])
           /\ Len(evals) = it /\ \A k \in 1..Len(evals) : evals[k] = 1
           /\ pulled = it
           /\ pc = "done" => it = Len(source) /\ Len(out[1]) + Len(out[2]) = Len(source)

C18_Witness ==
    /\ opname = "partition" /\ pc = "done"
    /\ Len(source) >= 3 /\ out[1] # <<>> /\ out[2] # <<>>

\* C19: associate and associate_by map every produced key to the value of
\* the last element that produced it, and hold no other key.
C19_AssociateLastWins ==
    (opname \in {"associate", "associate_by"} /\ pc = "done") =>
        /\ DOMAIN result = {sel[source[k]] : k \in 1..Len(source)}
        /\ \A key \in DOMAIN result :
              result[key] =
                  ValueOf(fn, source[Latest({k \in 1..Len(source) : sel[source[k]] = key})])

C19_Witness ==
    /\ opname = "associate_by" /\ pc = "done"
    /\ \E j, k \in 1..Len(source) :
          /\ j < k /\ sel[source[j]] = sel[source[k]] /\ source[j] # source[k]
          /\ result[sel[source[k]]] = source[k]
          /\ \A m \in (k + 1)..Len(source) : sel[source[m]] # sel[source[k]]

\* C20: constructing a Seq and stacking deferred operations on it, in any
\* chain, pulls no element from the source and calls no caller-supplied
\* function; elements are pulled and functions called only once a terminal
\* operation drives the chain.
C20_DeferredPullsNothing ==
    /\ (pc \in {"idle", "building"}) =>
          pulled = 0 /\ calls = 0 /\ it = 0 /\ ~exhausted
    /\ (pulled > 0 \/ calls > 0) => opname = "to_list"

C20_Witness ==
    /\ opname = "to_list" /\ pc = "done"
    /\ Len(chain) >= 2
    /\ pulled > 0 /\ calls > 0 /\ i > 0

C22_ShuffledKeepsSource ==
    [][(opname' = "shuffled") =>
          /\ source' = source
          /\ \E f \in Perms(Len(source)) : Rearranges(f, source, mat')]_vars

C22_Witness ==
    /\ opname = "shuffled" /\ pc = "done" /\ kind = "list"
    /\ Len(source) >= 3 /\ out # source
    /\ \E f \in Perms(Len(source)) : Rearranges(f, source, out)

C27_EagerMaterializes ==
    (opname \in Eager /\ form \in {"method", "again"}) =>
        /\ pc = "materialized" =>
              /\ it = Len(source) /\ pulled = Sat(Len(source)) /\ exhausted
              /\ out = <<>>
              /\ Len(mat) = Len(source)
        /\ pc = "done" =>
              /\ out = mat
              /\ \E f \in Perms(Len(source)) : Rearranges(f, source, out)

C27_Witness ==
    /\ opname \in Eager /\ pc = "done"
    /\ late # <<>> /\ Len(out) = Len(source) /\ Len(source) >= 2
    /\ \A k \in 1..Len(out) : out[k] # late[1]

\* C30: first and first_or_none pull one element at most, single and
\* single_or_none two at most, and they have returned or raised once
\* called; any and all pull nothing after the first element that decides
\* them, and return when the source, finite or not, has such an element.
C30_ShortCircuit ==
    /\ [](/\ opname \in {"first", "first_or_none"} => pulled <= 1 /\ pc \in {"done", "raised"}
          /\ opname \in {"single", "single_or_none"} => pulled <= 2 /\ pc \in {"done", "raised"}
          /\ opname \in {"any", "all"} =>
                /\ \A k \in 1..(pulled - 1) : ~Deciding(StreamAt(k))
                /\ (pc = "done" /\ result = (opname = "any")) =>
                      pulled >= 1 /\ Deciding(StreamAt(pulled)))
    /\ (/\ opname \in {"any", "all"} /\ pc = "iterating"
        /\ \E k \in 1..Len(source) : Deciding(source[k]))
          ~> (pc = "done")

C30_Witness ==
    /\ kind = "cycle" /\ opname = "all" /\ pc = "done"
    /\ result = FALSE /\ pulled = 2 /\ Len(source) >= 3

\* C25: an intermediate operation returns a new Seq and changes no Seq
\* that exists: the receiver and the Seqs under it wrap what they wrapped
\* before, and nothing ever changes that, nor the source.
C25_ReceiverUnchanged ==
    [][/\ source' = source /\ kind' = kind
       /\ \A k \in 1..Len(chain) : k <= Len(chain') /\ chain'[k] = chain[k]
       /\ chain' # chain => Len(chain') = Len(chain) + 1]_vars

C25_Witness ==
    /\ pc = "done" /\ Len(chain) >= 2
    /\ chain[1].op # chain[2].op
    /\ pulled > 0

\* C26: a chain is evaluated pull by pull: a stage asks the one below it
\* only when it was asked itself, the source is pulled once per request
\* that reaches it, so in map(f).filter(p) both f and p have been called
\* for the first element when the second is pulled, and a chain that
\* returns one result per element has pulled k elements at its k-th result.
C26_PullBased ==
    [][/\ pulled' # pulled =>
             /\ pc = "driving" /\ lvl = 0 /\ tok.dir = "req"
             /\ pulled' = Sat(pulled + 1)
             /\ (ChainOps = <<"map", "filter">> /\ pulled = 1) => calls = 2
       /\ (pc = "driving" /\ lvl' < lvl) => lvl' = lvl - 1 /\ tok'.dir = "req"
       /\ (pc = "driving" /\ lvl' > lvl) => lvl' = lvl + 1 /\ tok'.dir \in {"item", "stop"}
       /\ (/\ pc' = "driving" /\ lvl' = Len(chain) + 1 /\ tok'.dir = "item"
           /\ \A k \in 1..Len(chain) : chain[k].op \in {"map", "enumerate"})
             => pulled' = Sat(i' + 1)]_vars

C26_Witness ==
    /\ ChainOps = <<"map", "filter">>
    /\ pc = "driving" /\ lvl = 0 /\ tok.dir = "req"
    /\ pulled = 1 /\ calls = 2 /\ i = 1

\* C24: over a list, every traversal of the Seq constructed over it starts
\* at the first element and, run to the end, sees every element, whatever
\* was traversed before or is traversed beside it.
C24_ListRestarts ==
    (kind = "list") =>
        \A c \in Consumers :
            (trav[c].target = "base") =>
                /\ \A k \in 1..Len(Current(c)) : Current(c)[k] = k
                /\ trav[c].st = "done" => Len(Current(c)) = Len(source)

C24_Witness ==
    /\ kind = "list" /\ Len(source) >= 2
    /\ \A c \in Consumers :
          /\ trav[c].target = "base" /\ trav[c].st = "done" /\ trav[c].runs = 2
          /\ Len(Current(c)) = Len(source)
          /\ trav[c].from > 0

\* C28: a derived Seq is single-pass, also over a list: a traversal that
\* starts after its iterator has reached the end yields nothing.
C28_DerivedSinglePass ==
    \A c \in Consumers :
        (trav[c].target = "derived" /\ trav[c].stale) =>
            /\ Current(c) = <<>>
            /\ gen.spent

C28_Witness ==
    /\ kind = "list" /\ gen.op = "map" /\ Len(source) >= 2
    /\ trav[1].target = "derived" /\ trav[1].st = "done" /\ trav[1].stale
    /\ trav[1].runs = 2 /\ trav[1].from = Len(source)
    /\ Current(1) = <<>>

\* C29: two consumers of Seqs over the same one-shot source, pulling in
\* any order: each gets source elements in source order, no element is
\* handed out twice, and none to both.
C29_OneShotShared ==
    (kind = "iter") =>
        /\ \A c \in Consumers :
              /\ \A k \in 1..Len(trav[c].got) : trav[c].got[k] \in 1..it
              /\ \A j, k \in 1..Len(trav[c].got) : j < k => trav[c].got[j] < trav[c].got[k]
        /\ \A j \in 1..Len(trav[1].got), k \in 1..Len(trav[2].got) :
              trav[1].got[j] # trav[2].got[k]

C29_Witness ==
    /\ kind = "iter" /\ Len(source) >= 3 /\ it = Len(source)
    /\ trav[1].target = "base" /\ trav[2].target = "derived"
    /\ Len(trav[1].got) >= 2 /\ trav[2].got # <<>>
    /\ trav[1].got[1] < trav[2].got[1] /\ trav[2].got[1] < trav[1].got[Len(trav[1].got)]

====
